---- MODULE Spec2Model ----
(***************************************************************************)
(* One call session of the Knowlarity <-> ElevenLabs bridge (src/index.js, *)
(* the handler registered for /knowlarity-media-stream).  The state is the *)
(* closure state of one connection (callMetadata, metadataReceived,        *)
(* elevenLabsWs), the readyState of the two sockets, and what has been     *)
(* written to each socket.  Every event-handler callback is one action.    *)
(***************************************************************************)
EXTENDS Integers, Sequences, FiniteSets, TLC

\* ------------------------------------------------------------------ bounds
MaxTelFrames == 2
MaxAiEvents == 2

\* ------------------------------------------------------------ JSON values
\* A field that is absent reads as undefined.
Undefined == "undefined"

\* JS null, the initial value of callMetadata and the result of JSON.parse("null").
Null == [type |-> "null", sampling_rate |-> Undefined, prompt |-> Undefined,
         first_message |-> Undefined]

Obj(rate, prompt, first) ==
  [type |-> "object", sampling_rate |-> rate, prompt |-> prompt, first_message |-> first]

\* Text frames the telephony gateway may send, as raw strings.
TextFrames ==
  { "not json",
    "null",
    "{\"sampling_rate\":\"16k\",\"prompt\":\"P\"}",
    "{\"sampling_rate\":\"32k\",\"first_message\":\"F\"}",
    "{\"sampling_rate\":\"8k\"}",
    "{\"type\":\"transfer\"}" }

\* JSON.parse on a telephony text frame: ok = FALSE when it throws SyntaxError.
ParseTelephonyJson(raw) ==
  CASE raw = "null" -> [ok |-> TRUE, value |-> Null]
    [] raw = "{\"sampling_rate\":\"16k\",\"prompt\":\"P\"}" ->
         [ok |-> TRUE, value |-> Obj("16k", "P", Undefined)]
    [] raw = "{\"sampling_rate\":\"32k\",\"first_message\":\"F\"}" ->
         [ok |-> TRUE, value |-> Obj("32k", Undefined, "F")]
    [] raw = "{\"sampling_rate\":\"8k\"}" ->
         [ok |-> TRUE, value |-> Obj("8k", Undefined, Undefined)]
    [] raw = "{\"type\":\"transfer\"}" ->
         [ok |-> TRUE, value |-> Obj(Undefined, Undefined, Undefined)]
    [] OTHER -> [ok |-> FALSE, value |-> Null]

\* callMetadata?.field : undefined when callMetadata is null.
OptField(meta, field) ==
  IF meta.type = "null" THEN Undefined ELSE meta[field]

\* JS truthiness of the scalar values used here (strings, tagged numbers).
Falsy == {Undefined, "", "n:0"}
Truthy(v) == v \notin Falsy

\* a || b
OrElse(a, b) == IF Truthy(a) THEN a ELSE b

\* ------------------------------------------------------------------ base64
B64Alphabet ==
  << "A","B","C","D","E","F","G","H","I","J","K","L","M","N","O","P",
     "Q","R","S","T","U","V","W","X","Y","Z","a","b","c","d","e","f",
     "g","h","i","j","k","l","m","n","o","p","q","r","s","t","u","v",
     "w","x","y","z","0","1","2","3","4","5","6","7","8","9","+","/" >>

B64Char(sextet) == B64Alphabet[sextet + 1]

RECURSIVE Base64(_)
\* Buffer.toString('base64') of a byte sequence, as a sequence of characters.
Base64(bytes) ==
  IF Len(bytes) = 0 THEN << >>
  ELSE IF Len(bytes) = 1 THEN
    << B64Char(bytes[1] \div 4), B64Char((bytes[1] % 4) * 16), "=", "=" >>
  ELSE IF Len(bytes) = 2 THEN
    << B64Char(bytes[1] \div 4),
       B64Char((bytes[1] % 4) * 16 + bytes[2] \div 16),
       B64Char((bytes[2] % 16) * 4), "=" >>
  ELSE
    << B64Char(bytes[1] \div 4),
       B64Char((bytes[1] % 4) * 16 + bytes[2] \div 16),
       B64Char((bytes[2] % 16) * 4 + bytes[3] \div 64),
       B64Char(bytes[3] % 64) >>
    \o Base64(SubSeq(bytes, 4, Len(bytes)))

\* Binary audio frames the telephony gateway may send (bytes).
BinaryFrames == { <<65>>, <<77, 97>>, <<77, 97, 110, 33>> }


\* ------------------------------------------------- ElevenLabs (AI) events
\* Messages the AI service may send, as raw strings.
AiMessages ==
  { "{\"type\":\"audio\",\"audio\":{\"chunk\":\"QQ==\"}}",
    "{\"type\":\"audio\",\"audio_event\":{\"audio_base_64\":\"Qg==\"}}",
    "{\"type\":\"audio\",\"audio\":{}}",
    "{\"type\":\"interruption\"}",
    "{\"type\":\"ping\",\"ping_event\":{\"event_id\":7}}",
    "{\"type\":\"ping\",\"ping_event\":{\"event_id\":0}}",
    "{\"type\":\"ping\",\"ping_event\":{\"event_id\":\"\"}}",
    "{\"type\":\"agent_response\"}",
    "null",
    "not json" }

AiMsg(type, chunk, b64, id) ==
  [ok |-> TRUE, isNull |-> FALSE, type |-> type, chunk |-> chunk,
   audio_base_64 |-> b64, event_id |-> id]

\* JSON.parse on an AI message, flattened to the fields the handler reads:
\* message.type, message.audio?.chunk, message.audio_event?.audio_base_64 and
\* message.ping_event?.event_id.  Numbers are tagged "n:<digits>".
ParseAiJson(raw) ==
  CASE raw = "{\"type\":\"audio\",\"audio\":{\"chunk\":\"QQ==\"}}" ->
         AiMsg("audio", "QQ==", Undefined, Undefined)
    [] raw = "{\"type\":\"audio\",\"audio_event\":{\"audio_base_64\":\"Qg==\"}}" ->
         AiMsg("audio", Undefined, "Qg==", Undefined)
    [] raw = "{\"type\":\"audio\",\"audio\":{}}" ->
         AiMsg("audio", Undefined, Undefined, Undefined)
    [] raw = "{\"type\":\"interruption\"}" ->
         AiMsg("interruption", Undefined, Undefined, Undefined)
    [] raw = "{\"type\":\"ping\",\"ping_event\":{\"event_id\":7}}" ->
         AiMsg("ping", Undefined, Undefined, "n:7")
    [] raw = "{\"type\":\"ping\",\"ping_event\":{\"event_id\":0}}" ->
         AiMsg("ping", Undefined, Undefined, "n:0")
    [] raw = "{\"type\":\"ping\",\"ping_event\":{\"event_id\":\"\"}}" ->
         AiMsg("ping", Undefined, Undefined, "")
    [] raw = "{\"type\":\"agent_response\"}" ->
         AiMsg("agent_response", Undefined, Undefined, Undefined)
    [] raw = "null" ->
         [ok |-> TRUE, isNull |-> TRUE, type |-> Undefined, chunk |-> Undefined,
          audio_base_64 |-> Undefined, event_id |-> Undefined]
    [] OTHER ->
         [ok |-> FALSE, isNull |-> FALSE, type |-> Undefined, chunk |-> Undefined,
          audio_base_64 |-> Undefined, event_id |-> Undefined]

\* Whether the body of the try block throws (SyntaxError from JSON.parse, or
\* TypeError from reading .type of null); the catch only logs.
AiHandlerThrows(raw) == (~ParseAiJson(raw).ok) \/ ParseAiJson(raw).isNull

\* ------------------------------------------------------ outbound payloads
\* SampleRate with the two recognised tags exchanged.
SampleRateSwapped(meta) ==
  IF OptField(meta, "sampling_rate") = "32k" THEN 16000
  ELSE IF OptField(meta, "sampling_rate") = "16k" THEN 32000
  ELSE 8000

\* sampleRate of a playAudio command.
SampleRate(meta) ==
  IF OptField(meta, "sampling_rate") = "16k" THEN 16000
  ELSE IF OptField(meta, "sampling_rate") = "32k" THEN 32000
  ELSE 8000

\* AudioPayload reading audio.chunk only.
AudioPayloadChunkOnly(msg) == msg.chunk

\* message.audio?.chunk || message.audio_event?.audio_base_64
AudioPayload(msg) == OrElse(msg.chunk, msg.audio_base_64)

PlayAudio(meta, payload) ==
  [type |-> "playAudio", audioContentType |-> "raw",
   sampleRate |-> SampleRate(meta), audioContent |-> payload]

\* InterruptionCommand as a stopAudio command.
InterruptionCommandStopAudio == [type |-> "stopAudio", reason |-> "userInterruption"]

\* The command sent to Knowlarity on an interruption event.
InterruptionCommand == [type |-> "disconnect"]

Pong(id) == [type |-> "pong", event_id |-> id]

\* Whether the ping case replies.
PingReplies(msg) == Truthy(msg.event_id)

UserAudioChunk(bytes) == [user_audio_chunk |-> Base64(bytes)]

DefaultPrompt == "Botwot customer service"
DefaultFirstMessage == "Hello, how can Botwot help you today?"

InitialConfig(meta) ==
  [type |-> "conversation_initiation_client_data",
   prompt |-> OrElse(OptField(meta, "prompt"), DefaultPrompt),
   first_message |-> OrElse(OptField(meta, "first_message"), DefaultFirstMessage)]

\* SendOn writing whatever the state of the socket.
SendOnAnyState(state, log, msg) == Append(log, msg)

\* socket.send(msg): the message goes on the wire only when the socket is OPEN.
SendOn(state, log, msg) == IF state = "OPEN" THEN Append(log, msg) ELSE log


\* -------------------------------------------------------------------- state
VARIABLES
  callMetadata,      \* let callMetadata
  metadataReceived,  \* let metadataReceived
  elevenLabsWs,      \* let elevenLabsWs: "null" or "ws" (a WebSocket object)
  readyState,        \* elevenLabsWs.readyState ("NONE" while elevenLabsWs is null)
  setupPc,           \* where setupElevenLabsConnection is
  wsState,           \* readyState of the Knowlarity socket ws
  toKnowlarity,      \* messages put on the wire by ws.send, in order
  toElevenLabs,      \* messages put on the wire by elevenLabsWs.send, in order
  acked,             \* how many of toElevenLabs the transport has flushed
  nTel,              \* number of Knowlarity frames handled
  nAi,               \* number of ElevenLabs messages handled
  lastEvent,         \* the frame or message handled last
  handledAs,         \* history: the branch of ws.on('message') taken last
  aiOpened,          \* history: the 'open' event of elevenLabsWs has fired
  audioArrived,      \* history: binary frames that arrived while the AI link was OPEN
  audioEvents,       \* history: chunks of the audio events delivered while ws was OPEN
  interruptionSeen,  \* history: an interruption event has been delivered
  fetchCalls,        \* history: calls of getSignedUrl
  socketsCreated     \* history: new WebSocket(signedUrl) calls

vars ==
  << callMetadata, metadataReceived, elevenLabsWs, readyState, setupPc, wsState,
     toKnowlarity, toElevenLabs, acked, nTel, nAi, lastEvent, handledAs, aiOpened,
     audioArrived, audioEvents, interruptionSeen, fetchCalls, socketsCreated >>

sessionVars == << callMetadata, metadataReceived >>
aiLinkVars == << elevenLabsWs, readyState, setupPc, fetchCalls, socketsCreated >>

NoEvent == [src |-> "none", isBinary |-> FALSE, text |-> "", bytes |-> << >>]
TextFrame(raw) == [src |-> "knowlarity", isBinary |-> FALSE, text |-> raw, bytes |-> << >>]
BinaryFrame(b) == [src |-> "knowlarity", isBinary |-> TRUE, text |-> "", bytes |-> b]
AiEvent(raw) == [src |-> "elevenlabs", isBinary |-> FALSE, text |-> raw, bytes |-> << >>]

TelephonyFrames ==
  { TextFrame(raw) : raw \in TextFrames } \cup { BinaryFrame(b) : b \in BinaryFrames }

\* The connection callback: the closure variables are initialised and
\* setupElevenLabsConnection() runs up to its first await.
Init ==
  /\ callMetadata = Null
  /\ metadataReceived = FALSE
  /\ elevenLabsWs = "null"
  /\ readyState = "NONE"
  /\ setupPc = "awaitSignedUrl"
  /\ wsState = "OPEN"
  /\ toKnowlarity = << >>
  /\ toElevenLabs = << >>
  /\ acked = 0
  /\ nTel = 0
  /\ nAi = 0
  /\ lastEvent = NoEvent
  /\ handledAs = "none"
  /\ aiOpened = FALSE
  /\ audioArrived = << >>
  /\ audioEvents = << >>
  /\ interruptionSeen = FALSE
  /\ fetchCalls = 1
  /\ socketsCreated = 0

\* ------------------------------------------------ setupElevenLabsConnection
\* getSignedUrl resolves: the socket is created and the handlers registered.
SignedUrlResolved ==
  /\ setupPc = "awaitSignedUrl"
  /\ elevenLabsWs' = "ws"
  /\ readyState' = "CONNECTING"
  /\ setupPc' = "registered"
  /\ socketsCreated' = socketsCreated + 1
  /\ UNCHANGED << audioEvents, handledAs, aiOpened, sessionVars, wsState, toKnowlarity, toElevenLabs, acked, nTel, nAi,
                  lastEvent, audioArrived, interruptionSeen, fetchCalls >>

\* SignedUrlRejected with the catch calling getSignedUrl again.
SignedUrlRejectedRetry ==
  /\ setupPc = "awaitSignedUrl"
  /\ fetchCalls' = fetchCalls + 1
  /\ UNCHANGED << audioEvents, handledAs, aiOpened, sessionVars, elevenLabsWs, readyState,
                  setupPc, wsState, toKnowlarity, toElevenLabs, acked, nTel, nAi,
                  lastEvent, audioArrived, interruptionSeen, socketsCreated >>

\* getSignedUrl rejects (or new WebSocket throws): the catch logs, elevenLabsWs stays null.
SignedUrlRejected ==
  /\ setupPc = "awaitSignedUrl"
  /\ setupPc' = "caught"
  /\ UNCHANGED << audioEvents, handledAs, aiOpened, sessionVars, elevenLabsWs, readyState, wsState, toKnowlarity,
                  toElevenLabs, acked, nTel, nAi, lastEvent, audioArrived,
                  interruptionSeen, fetchCalls, socketsCreated >>

\* ElevenLabsOpen sending the initial configuration twice.
ElevenLabsOpenTwice ==
  /\ readyState = "CONNECTING"
  /\ readyState' = "OPEN"
  /\ aiOpened' = TRUE
  /\ toElevenLabs' =
       toElevenLabs \o << InitialConfig(callMetadata), InitialConfig(callMetadata) >>
  /\ UNCHANGED << audioEvents, handledAs, sessionVars, elevenLabsWs, setupPc, wsState,
                  toKnowlarity, acked, nTel, nAi, lastEvent, audioArrived,
                  interruptionSeen, fetchCalls, socketsCreated >>

\* elevenLabsWs.on('open'): send the initial configuration.
ElevenLabsOpen ==
  /\ readyState = "CONNECTING"
  /\ readyState' = "OPEN"
  /\ aiOpened' = TRUE
  /\ toElevenLabs' = Append(toElevenLabs, InitialConfig(callMetadata))
  /\ UNCHANGED << audioEvents, handledAs, sessionVars, elevenLabsWs, setupPc, wsState, toKnowlarity, acked,
                  nTel, nAi, lastEvent, audioArrived, interruptionSeen, fetchCalls,
                  socketsCreated >>

\* ElevenLabsClosed with the close cascading to the Knowlarity socket.
ElevenLabsClosedCascade ==
  /\ readyState \in {"CONNECTING", "OPEN", "CLOSING"}
  /\ readyState' = "CLOSED"
  /\ wsState' = "CLOSED"
  /\ UNCHANGED << audioEvents, handledAs, aiOpened, sessionVars, elevenLabsWs, setupPc,
                  toKnowlarity, toElevenLabs, acked, nTel, nAi, lastEvent, audioArrived,
                  interruptionSeen, fetchCalls, socketsCreated >>

\* The connect fails, the peer closes or the close handshake completes:
\* elevenLabsWs.on('error') and elevenLabsWs.on('close') only log.
ElevenLabsClosed ==
  /\ readyState \in {"CONNECTING", "OPEN", "CLOSING"}
  /\ readyState' = "CLOSED"
  /\ UNCHANGED << audioEvents, handledAs, aiOpened, sessionVars, elevenLabsWs, setupPc, wsState, toKnowlarity,
                  toElevenLabs, acked, nTel, nAi, lastEvent, audioArrived,
                  interruptionSeen, fetchCalls, socketsCreated >>

\* KnowlarityCommands with the default case falling into the interruption case.
KnowlarityCommandsFallThrough(raw, meta) ==
  IF AiHandlerThrows(raw) THEN << >>
  ELSE LET msg == ParseAiJson(raw) IN
    CASE msg.type = "audio" ->
           IF Truthy(AudioPayload(msg)) THEN << PlayAudio(meta, AudioPayload(msg)) >>
           ELSE << >>
      [] msg.type = "ping" -> << >>
      [] OTHER -> << InterruptionCommand >>

\* Commands the message handler sends to Knowlarity for one AI message.
KnowlarityCommands(raw, meta) ==
  IF AiHandlerThrows(raw) THEN << >>
  ELSE LET msg == ParseAiJson(raw) IN
    CASE msg.type = "audio" ->
           IF Truthy(AudioPayload(msg)) THEN << PlayAudio(meta, AudioPayload(msg)) >>
           ELSE << >>
      [] msg.type = "interruption" -> << InterruptionCommand >>
      [] OTHER -> << >>

\* Replies the message handler sends to ElevenLabs for one AI message.
ElevenLabsReplies(raw) ==
  IF AiHandlerThrows(raw) THEN << >>
  ELSE LET msg == ParseAiJson(raw) IN
    IF msg.type = "ping" /\ PingReplies(msg) THEN << Pong(msg.event_id) >> ELSE << >>

RECURSIVE SendAll(_, _, _)
SendAll(state, log, msgs) ==
  IF msgs = << >> THEN log
  ELSE SendAll(state, SendOn(state, log, Head(msgs)), Tail(msgs))

\* elevenLabsWs.on('message')
ElevenLabsMessage(raw) ==
  /\ readyState \in {"OPEN", "CLOSING"}
  /\ nAi < MaxAiEvents
  /\ nAi' = nAi + 1
  /\ lastEvent' = AiEvent(raw)
  /\ toKnowlarity' = SendAll(wsState, toKnowlarity, KnowlarityCommands(raw, callMetadata))
  /\ toElevenLabs' = SendAll(readyState, toElevenLabs, ElevenLabsReplies(raw))
  /\ interruptionSeen' =
       (interruptionSeen \/ (~AiHandlerThrows(raw) /\ ParseAiJson(raw).type = "interruption"))
  /\ audioEvents' =
       IF wsState = "OPEN" /\ ParseAiJson(raw).type = "audio"
          /\ (Truthy(ParseAiJson(raw).chunk) \/ Truthy(ParseAiJson(raw).audio_base_64))
       THEN Append(audioEvents,
                   IF Truthy(ParseAiJson(raw).chunk) THEN ParseAiJson(raw).chunk
                   ELSE ParseAiJson(raw).audio_base_64)
       ELSE audioEvents
  /\ UNCHANGED << handledAs, aiOpened, sessionVars, aiLinkVars, wsState, acked, nTel, audioArrived >>

\* --------------------------------------------------------- ws.on('message')
\* Branch without the !metadataReceived test: every text frame is metadata.
BranchIgnoringReceived(received, isBinary) ==
  IF ~isBinary THEN "metadata" ELSE "audio"

\* Which branch of the handler a frame takes.
Branch(received, isBinary) ==
  IF ~received /\ ~isBinary THEN "metadata"
  ELSE IF isBinary THEN "audio"
  ELSE "control"

\* MetadataAfter with metadataReceived set before JSON.parse is tried.
MetadataAfterFlagFirst(meta, received, raw) ==
  IF ParseTelephonyJson(raw).ok
  THEN [callMetadata |-> ParseTelephonyJson(raw).value, metadataReceived |-> TRUE]
  ELSE [callMetadata |-> meta, metadataReceived |-> TRUE]

\* The metadata branch: callMetadata and metadataReceived after the frame.
MetadataAfter(meta, received, raw) ==
  IF ParseTelephonyJson(raw).ok
  THEN [callMetadata |-> ParseTelephonyJson(raw).value, metadataReceived |-> TRUE]
  ELSE [callMetadata |-> meta, metadataReceived |-> received]

\* LinkOpen without the readyState test.
LinkOpenNoStateTest(link, state) == link # "null" /\ state # "CLOSED"

\* elevenLabsWs && elevenLabsWs.readyState === WebSocket.OPEN
LinkOpen(link, state) == link # "null" /\ state = "OPEN"

\* AudioForward sending the chunk twice.
AudioForwardTwice(link, state, bytes) ==
  IF link # "null" /\ state = "OPEN"
  THEN << UserAudioChunk(bytes), UserAudioChunk(bytes) >> ELSE << >>

\* AudioForward without the readyState test.
AudioForwardUnguarded(link, state, bytes) ==
  IF link # "null" THEN << UserAudioChunk(bytes) >> ELSE << >>

\* What the audio branch sends to ElevenLabs for one binary frame.
AudioForward(link, state, bytes) ==
  IF LinkOpen(link, state) THEN << UserAudioChunk(bytes) >> ELSE << >>

KnowlarityMessage(frame) ==
  /\ wsState = "OPEN"
  /\ nTel < MaxTelFrames
  /\ nTel' = nTel + 1
  /\ lastEvent' = frame
  /\ handledAs' = Branch(metadataReceived, frame.isBinary)
  /\ LET branch == Branch(metadataReceived, frame.isBinary)
         after == MetadataAfter(callMetadata, metadataReceived, frame.text)
     IN /\ callMetadata' = IF branch = "metadata" THEN after.callMetadata ELSE callMetadata
        /\ metadataReceived' =
             IF branch = "metadata" THEN after.metadataReceived ELSE metadataReceived
        /\ toElevenLabs' =
             IF branch = "audio"
             THEN toElevenLabs \o AudioForward(elevenLabsWs, readyState, frame.bytes)
             ELSE toElevenLabs
  /\ audioArrived' =
       IF frame.isBinary /\ readyState = "OPEN"
       THEN Append(audioArrived, frame.bytes) ELSE audioArrived
  /\ UNCHANGED << audioEvents, aiOpened, aiLinkVars, wsState, toKnowlarity, acked, nAi, interruptionSeen >>

\* ws.on('close'): close the AI link if it is open.
KnowlarityClose ==
  /\ wsState = "OPEN"
  /\ wsState' = "CLOSED"
  /\ readyState' = IF LinkOpen(elevenLabsWs, readyState) THEN "CLOSING" ELSE readyState
  /\ UNCHANGED << audioEvents, handledAs, aiOpened, sessionVars, elevenLabsWs, setupPc, toKnowlarity, toElevenLabs, acked,
                  nTel, nAi, lastEvent, audioArrived, interruptionSeen, fetchCalls,
                  socketsCreated >>

\* The transport finishes writing the oldest pending elevenLabsWs.send.
SendFlushed ==
  /\ acked < Len(toElevenLabs)
  /\ acked' = acked + 1
  /\ UNCHANGED << audioEvents, handledAs, aiOpened, sessionVars, aiLinkVars, wsState, toKnowlarity, toElevenLabs, nTel,
                  nAi, lastEvent, audioArrived, interruptionSeen >>

Next ==
  \/ SignedUrlResolved
  \/ SignedUrlRejected
  \/ ElevenLabsOpen
  \/ ElevenLabsClosed
  \/ \E raw \in AiMessages : ElevenLabsMessage(raw)
  \/ \E frame \in TelephonyFrames : KnowlarityMessage(frame)
  \/ KnowlarityClose
  \/ SendFlushed

Spec == Init /\ [][Next]_vars


\* ------------------------------------------------------------ observations
IsChunk(m) == "user_audio_chunk" \in DOMAIN m
IsTyped(m, t) == "type" \in DOMAIN m /\ m.type = t

\* The user_audio_chunk messages of a log, in order.
Chunks(log) == SelectSeq(log, IsChunk)
\* The messages of a log with the given type, in order.
PlayAudios(log) == SelectSeq(log, LAMBDA m : IsTyped(m, "playAudio"))

\* This step handled a Knowlarity frame / an ElevenLabs message.
KnowlarityStep == nTel' = nTel + 1
ElevenLabsStep == nAi' = nAi + 1
\* This step handled an ElevenLabs message of the given type.
AiEventStep(t) ==
  /\ ElevenLabsStep
  /\ ~AiHandlerThrows(lastEvent'.text)
  /\ ParseAiJson(lastEvent'.text).type = t

\* ------------------------------------------------------------------ claims

\* C1: metadataReceived goes false->true at most once, the text frame that
\* flips it is the one whose parse becomes callMetadata, and every text frame
\* handled after that takes the control branch and leaves callMetadata alone.
C1_MetadataSetOnce ==
  [][ /\ (metadataReceived => metadataReceived' /\ callMetadata' = callMetadata)
      /\ (metadataReceived /\ KnowlarityStep /\ ~lastEvent'.isBinary
            => handledAs' = "control")
      /\ (~metadataReceived => callMetadata = Null)
      /\ (~metadataReceived /\ metadataReceived'
            => /\ KnowlarityStep
               /\ ~lastEvent'.isBinary
               /\ handledAs' = "metadata"
               /\ ParseTelephonyJson(lastEvent'.text).ok
               /\ callMetadata' = ParseTelephonyJson(lastEvent'.text).value)
    ]_vars

\* C1 witness: a second parseable text frame has been handled as a control
\* message after metadata was stored, and the stored metadata is not its parse.
C1_Witness ==
  /\ metadataReceived
  /\ handledAs = "control"
  /\ ParseTelephonyJson(lastEvent.text).ok
  /\ callMetadata # ParseTelephonyJson(lastEvent.text).value

\* C2 (as claimed): an interruption event delivered while the telephony
\* socket is open puts a stopAudio command with reason userInterruption on the
\* telephony link, and once an interruption has been delivered no playAudio
\* command is put on the telephony link any more.
C2_StopAudioThenNoPlayAudio ==
  [][ /\ (AiEventStep("interruption") /\ wsState = "OPEN"
            => toKnowlarity' =
                 Append(toKnowlarity, [type |-> "stopAudio", reason |-> "userInterruption"]))
      /\ (interruptionSeen => PlayAudios(toKnowlarity') = PlayAudios(toKnowlarity))
    ]_vars

\* C3 (as claimed): every ping delivered while the AI link is open, whatever
\* its event_id, is answered by exactly one pong echoing that event_id.
C3_EveryPingAnswered ==
  [][ AiEventStep("ping") /\ readyState = "OPEN"
        => toElevenLabs' =
             Append(toElevenLabs, Pong(ParseAiJson(lastEvent'.text).event_id))
    ]_vars

\* C4: the user_audio_chunk payloads on the AI link are exactly the base64
\* encodings of the binary frames that arrived while the link was open, in
\* arrival order, one per frame.
C4_AudioForwardedInOrder ==
  Chunks(toElevenLabs) =
    [i \in 1..Len(audioArrived) |-> [user_audio_chunk |-> Base64(audioArrived[i])]]

\* C4 witness: two different frames have been forwarded.
C4_Witness ==
  /\ Len(audioArrived) >= 2
  /\ audioArrived[1] # audioArrived[2]
  /\ Len(Chunks(toElevenLabs)) >= 2

\* C5: every playAudio command carries sampleRate 16000 when the metadata's
\* sampling_rate tag is "16k" at the time of the audio event, 32000 when it is
\* "32k", and 8000 for any other tag, an absent tag or absent metadata.
C5_SampleRateFromTag ==
  [][ Len(PlayAudios(toKnowlarity')) > Len(PlayAudios(toKnowlarity))
        => LET rate == toKnowlarity'[Len(toKnowlarity')].sampleRate
               tagged(t) == callMetadata.type = "object" /\ callMetadata.sampling_rate = t
           IN /\ (tagged("16k") => rate = 16000)
              /\ (tagged("32k") => rate = 32000)
              /\ (~tagged("16k") /\ ~tagged("32k") => rate = 8000)
    ]_vars

\* C5 witness: an audio event before the metadata frame was played at 8000
\* and one after a "32k" metadata frame at 32000.
C5_Witness ==
  /\ Len(PlayAudios(toKnowlarity)) >= 2
  /\ PlayAudios(toKnowlarity)[1].sampleRate = 8000
  /\ PlayAudios(toKnowlarity)[2].sampleRate = 32000

\* C6: a text frame that is not valid JSON, handled while no metadata has been
\* received, changes nothing: callMetadata and metadataReceived keep their
\* values, nothing is sent on either link and neither socket changes state.
C6_MalformedFirstFrameIgnored ==
  [][ KnowlarityStep /\ ~metadataReceived /\ ~lastEvent'.isBinary
        /\ ~ParseTelephonyJson(lastEvent'.text).ok
        => /\ handledAs' = "metadata"
           /\ UNCHANGED << callMetadata, metadataReceived, toKnowlarity, toElevenLabs,
                           wsState, elevenLabsWs, readyState >>
    ]_vars

\* C6 witness: the malformed frame has been handled and the session still
\* awaits metadata on an open telephony socket.
C6_Witness ==
  /\ nTel >= 1
  /\ lastEvent = TextFrame("not json")
  /\ handledAs = "metadata"
  /\ ~metadataReceived
  /\ wsState = "OPEN"

\* C7: as long as the AI link has not opened (the signed-URL fetch failed, the
\* connect failed or either is pending), nothing has been sent to the AI link
\* and no command to the telephony link; the failure itself leaves the
\* telephony socket as it is, and metadata frames are still stored.
C7_TelephonyOnlyMode ==
  [][ ~aiOpened'
        => /\ toElevenLabs' = << >>
           /\ toKnowlarity' = << >>
           /\ (setupPc' = "caught" /\ setupPc # "caught" => wsState' = wsState)
           /\ (readyState' = "CLOSED" /\ readyState # "CLOSED" => wsState' = wsState)
           /\ (KnowlarityStep /\ ~metadataReceived /\ ~lastEvent'.isBinary
                 /\ ParseTelephonyJson(lastEvent'.text).ok
                 /\ (setupPc = "caught" \/ readyState = "CLOSED")
                 => metadataReceived')
    ]_vars

\* C7 witness: the AI link failed before opening, and the telephony socket is
\* open and has taken a metadata frame and then an audio frame.
C7_Witness ==
  /\ ~aiOpened
  /\ (setupPc = "caught" \/ readyState = "CLOSED")
  /\ wsState = "OPEN"
  /\ metadataReceived
  /\ lastEvent.src = "knowlarity" /\ lastEvent.isBinary

\* C8 (as claimed): once the telephony socket has closed, the AI link is not
\* open.
C8_AiLinkNotOpenAfterCall == wsState = "CLOSED" => readyState # "OPEN"

\* C9 (as claimed): at most one caller audio forward is in flight (handed to
\* elevenLabsWs.send and not yet flushed by the transport) at any time.
C9_OneForwardInFlight ==
  Cardinality({ i \in (acked + 1)..Len(toElevenLabs) : IsChunk(toElevenLabs[i]) }) <= 1

\* C10 (as claimed): once an interruption event has been delivered, no
\* user_audio_chunk is sent to the AI link.
C10_NoForwardWhileInterrupted ==
  [][ interruptionSeen => Chunks(toElevenLabs') = Chunks(toElevenLabs) ]_vars


\* The conversation_initiation_client_data messages of a log, in order.
InitialConfigs(log) ==
  SelectSeq(log, LAMBDA m : IsTyped(m, "conversation_initiation_client_data"))

\* C11 (as claimed): a caller audio frame is forwarded to the AI link only
\* after metadata has been received, and once a frame has been forwarded every
\* text frame takes the control branch.
C11_AudioOnlyAfterMetadata ==
  [][ /\ (Len(Chunks(toElevenLabs')) > Len(Chunks(toElevenLabs)) => metadataReceived)
      /\ (Chunks(toElevenLabs) # << >> /\ KnowlarityStep /\ ~lastEvent'.isBinary
            => handledAs' = "control")
    ]_vars

\* C12 (as claimed): whenever the AI link has opened and the session metadata
\* carries a prompt (a first_message), the initiation payload on the AI link
\* carries that prompt (that first_message).
C12_InitiationCarriesMetadata ==
  (aiOpened /\ callMetadata.type = "object")
    => \A i \in 1..Len(InitialConfigs(toElevenLabs)) :
         /\ (callMetadata.prompt # Undefined
               => InitialConfigs(toElevenLabs)[i].prompt = callMetadata.prompt)
         /\ (callMetadata.first_message # Undefined
               => InitialConfigs(toElevenLabs)[i].first_message = callMetadata.first_message)

\* C13: a binary frame handled while the AI link is not OPEN (absent,
\* connecting, closing or closed) sends nothing, and a user_audio_chunk only
\* ever appears in the step that handles a binary frame on an OPEN link, as
\* the encoding of that very frame; no other step sends one later.
C13_AudioDroppedUnlessOpen ==
  [][ /\ (KnowlarityStep /\ lastEvent'.isBinary /\ readyState # "OPEN"
            => toElevenLabs' = toElevenLabs /\ acked' = acked)
      /\ (Chunks(toElevenLabs') # Chunks(toElevenLabs)
            => /\ KnowlarityStep
               /\ lastEvent'.isBinary
               /\ readyState = "OPEN"
               /\ toElevenLabs' =
                    Append(toElevenLabs, [user_audio_chunk |-> Base64(lastEvent'.bytes)]))
    ]_vars

\* C13 witness: a binary frame arrived before the AI link was open, the link
\* has opened since, and no user_audio_chunk has been sent.
C13_Witness ==
  /\ lastEvent.src = "knowlarity" /\ lastEvent.isBinary
  /\ audioArrived = << >>
  /\ readyState = "OPEN"
  /\ Chunks(toElevenLabs) = << >>


\* C14: the playAudio commands on the telephony link are, in order, one per
\* audio event that carried a chunk (audio.chunk, else
\* audio_event.audio_base_64) and was delivered while the telephony socket was
\* open, each with that chunk as audioContent and content type raw; audio
\* events without a chunk add none.
C14_AudioEventsPlayedInOrder ==
  /\ Len(PlayAudios(toKnowlarity)) = Len(audioEvents)
  /\ \A i \in 1..Len(audioEvents) :
       /\ PlayAudios(toKnowlarity)[i].audioContent = audioEvents[i]
       /\ PlayAudios(toKnowlarity)[i].audioContentType = "raw"

\* C14 witness: an audio.chunk event and then an audio_event.audio_base_64
\* event have been played, in that order.
C14_Witness ==
  /\ audioEvents = << "QQ==", "Qg==" >>
  /\ Len(PlayAudios(toKnowlarity)) = 2

\* C15: the step in which the AI link closes (after an error or a close)
\* leaves the telephony socket, the commands sent to it, callMetadata and
\* metadataReceived unchanged, and a closed AI link stays closed: no new
\* signed-URL fetch and no new socket.
C15_AiCloseLeavesTelephonyOpen ==
  [][ /\ (readyState # "CLOSED" /\ readyState' = "CLOSED"
            => UNCHANGED << wsState, toKnowlarity, callMetadata, metadataReceived >>)
      /\ (readyState = "CLOSED"
            => /\ readyState' = "CLOSED"
               /\ UNCHANGED << elevenLabsWs, setupPc, fetchCalls, socketsCreated >>)
    ]_vars

\* C15 witness: the AI link opened and then closed while the telephony socket
\* is still open with metadata stored.
C15_Witness ==
  /\ aiOpened
  /\ readyState = "CLOSED"
  /\ wsState = "OPEN"
  /\ metadataReceived

\* C16: an AI message that is not valid JSON, is JSON null, or carries a type
\* other than audio, interruption and ping changes nothing but the record of
\* its arrival: nothing is sent on either link and the session state, both
\* sockets and the setup are as before, so later events are handled from the
\* same state.
C16_BadAiMessageDropped ==
  [][ ElevenLabsStep
        /\ (AiHandlerThrows(lastEvent'.text)
              \/ ParseAiJson(lastEvent'.text).type \notin {"audio", "interruption", "ping"})
        => UNCHANGED << callMetadata, metadataReceived, elevenLabsWs, readyState, setupPc,
                        wsState, toKnowlarity, toElevenLabs, acked >>
    ]_vars

\* C16 witness: a malformed AI message was handled after a command had been
\* sent, with both links still open.
C16_Witness ==
  /\ lastEvent = AiEvent("not json")
  /\ toKnowlarity # << >>
  /\ readyState = "OPEN"
  /\ wsState = "OPEN"


\* C17: getSignedUrl is called once per session and at most one AI socket is
\* ever created, whatever failures occur; after a failed fetch there is no
\* socket at all.
C17_NoRetry ==
  /\ fetchCalls = 1
  /\ socketsCreated <= 1
  /\ (setupPc = "caught" => elevenLabsWs = "null" /\ socketsCreated = 0)
  /\ (setupPc = "awaitSignedUrl" => socketsCreated = 0)

\* C17 witness: the one AI connection opened and closed in a session that
\* handled telephony frames, and no second fetch or socket exists.
C17_Witness ==
  /\ aiOpened
  /\ readyState = "CLOSED"
  /\ fetchCalls = 1
  /\ socketsCreated = 1
  /\ lastEvent.src = "knowlarity"

\* C18: an interruption event delivered while the telephony socket is open
\* appends exactly one {type: 'disconnect'} command to the telephony link, and
\* an interruption event sends nothing to the AI link.
C18_InterruptionDisconnects ==
  [][ AiEventStep("interruption")
        => /\ (wsState = "OPEN"
                 => toKnowlarity' = Append(toKnowlarity, [type |-> "disconnect"]))
           /\ toElevenLabs' = toElevenLabs
    ]_vars

\* C18 witness: an interruption was the last event and the disconnect command
\* is the last command on the telephony link.
C18_Witness ==
  /\ lastEvent = AiEvent("{\"type\":\"interruption\"}")
  /\ toKnowlarity # << >>
  /\ toKnowlarity[Len(toKnowlarity)] = [type |-> "disconnect"]

C20_InitiationFirstAndOnce ==
  /\ (~aiOpened => toElevenLabs = << >>)
  /\ (aiOpened
        => /\ Len(toElevenLabs) >= 1
           /\ IsTyped(toElevenLabs[1], "conversation_initiation_client_data")
           /\ Len(InitialConfigs(toElevenLabs)) = 1)

\* C20 witness: the initiation payload is followed by a user_audio_chunk and a pong.
C20_Witness ==
  /\ Len(toElevenLabs) >= 3
  /\ IsTyped(toElevenLabs[1], "conversation_initiation_client_data")
  /\ \E i \in 2..Len(toElevenLabs) : IsChunk(toElevenLabs[i])
  /\ \E i \in 2..Len(toElevenLabs) : IsTyped(toElevenLabs[i], "pong")

====
